---- MODULE Spec2Model ----
(***************************************************************************)
(* NISPS core: the interactive-ML facade (nisps::IML), its example store   *)
(* (nisps::Dataset) and the multi-layer perceptron it drives (nisps::MLP). *)
(*                                                                         *)
(* Float values are modelled in fixed point: the integer v stands for the  *)
(* real v / One.  Every product is rounded to the nearest unit, as a       *)
(* floating-point product is rounded to the nearest representable value.   *)
(* NaN and infinities have no counterpart.                                 *)
(***************************************************************************)
EXTENDS Integers, Sequences, FiniteSets, TLC

(***************************************************************************)
(* Bounds of the model.                                                    *)
(***************************************************************************)
\* fixed-point scale: the integer One stands for 1.0
One == 4
\* dataset capacity (Dataset::kMax_examples is 100 in the source; the model
\* runs the same code with a capacity that a bounded run can reach)
MaxExamples == 1
\* max_iterations passed to the IML constructor
MaxIter == 2
\* number of operations a behaviour calls on the IML instance
MaxCalls == 6

(***************************************************************************)
(* Construction parameters of the modelled IML instance.                   *)
(***************************************************************************)
n_inputs_ == 1
n_outputs_ == 1
kBias == 1
m_bias == 0
hidden_layers == << >>
learning_rate_ == One
\* the smallest positive representable threshold
convergence_threshold_ == 1

\* values a caller passes to set_input / set_output: below, inside and
\* above the range [0, 1]
CallValues == {-1, One \div 2, One + 1}
\* the values the elements of a bulk set_inputs / set_outputs call take
BulkValues == {-1, One + 1}
\* indices a caller passes: in range and out of range
CallIndices == 0 .. n_inputs_
\* values utils::gen_rand draws (uniform in [-1, 1]); the model draws the
\* two ends of the range
DrawValues == {-One, One}
\* the speeds a caller passes to moveWeights
MoveSpeeds == {One}
\* the values the sum of three uniform draws of MLP::moveWeights can take
AccumValues == {-1, 1}

(***************************************************************************)
(* Fixed-point arithmetic.                                                 *)
(***************************************************************************)
Abs(x) == IF x < 0 THEN -x ELSE x

\* n / d rounded to the nearest integer, halves away from zero (d > 0)
Rnd(n, d) == IF n >= 0 THEN (2 * n + d) \div (2 * d)
                       ELSE -((2 * (-n) + d) \div (2 * d))

Mul(a, b) == Rnd(a * b, One)

RECURSIVE SumSeq(_)
SumSeq(s) == IF s = << >> THEN 0 ELSE Head(s) + SumSeq(Tail(s))

(***************************************************************************)
(* Activation functions (utils.hpp).  exp() has no integer counterpart:    *)
(* the logistic function is evaluated by the algebraic sigmoid             *)
(* 1/2 + x / (2 (1 + |x|)), which has the same range, the same value at 0, *)
(* and is monotone; its derivative is formed from it as the code forms it. *)
(***************************************************************************)
sigmoid(x) == Rnd(One * (One + Abs(x) + x), 2 * (One + Abs(x)))

deriv_sigmoid(x) == Mul(sigmoid(x), One - sigmoid(x))

\* kReLUSlope = 0.01
relu(x) == IF x > 0 THEN x ELSE Rnd(x, 100)

deriv_relu(x) == IF x > 0 THEN One ELSE Rnd(One, 100)

Activation(f, x) == IF f = "SIGMOID" THEN sigmoid(x) ELSE relu(x)

DerivActivation(f, x) == IF f = "SIGMOID" THEN deriv_sigmoid(x) ELSE deriv_relu(x)

(***************************************************************************)
(* Network shape built by the IML constructor.                             *)
(***************************************************************************)
layer_sizes == <<n_inputs_ + kBias>> \o hidden_layers \o <<n_outputs_>>

activations == [i \in 1 .. Len(hidden_layers) |-> "RELU"] \o <<"SIGMOID">>

m_num_inputs == layer_sizes[1]

NumLayers == Len(layer_sizes) - 1

\* all weight tensors of the network's shape over a set of values:
\* weights[layer][node][input] (MLP::mlp_weights)
LayerWeights(n, vals) ==
    [1 .. layer_sizes[n + 1] -> [1 .. layer_sizes[n] -> vals]]

WeightTensors(vals) ==
    { w \in [1 .. NumLayers -> UNION { LayerWeights(n, vals) : n \in 1 .. NumLayers }] :
        \A n \in 1 .. NumLayers : w[n] \in LayerWeights(n, vals) }

(***************************************************************************)
(* Node and Layer: forward pass.                                           *)
(***************************************************************************)
\* Node::GetInputInnerProdWithWeights
GetInputInnerProdWithWeights(w, input) ==
    SumSeq([j \in 1 .. Len(input) |-> Mul(input[j], w[j])]) + m_bias

\* Layer::GetOutputAfterActivationFunction
GetOutputAfterActivationFunction(lw, f, input) ==
    [k \in 1 .. Len(lw) |-> Activation(f, GetInputInnerProdWithWeights(lw[k], input))]

\* the input of every layer followed by the output of the last one
RECURSIVE LayerActivations(_, _, _)
LayerActivations(weights, i, in) ==
    IF i > Len(weights) THEN <<in>>
    ELSE <<in>> \o LayerActivations(weights, i + 1,
                       GetOutputAfterActivationFunction(weights[i], activations[i], in))

\* MLP::GetOutput: writes the forward pass into *output; on an input of the
\* wrong width it returns early and *output keeps the value it was passed.
\* The loss is MSE, so no softmax is applied.
GetOutput(weights, input, output) ==
    IF Len(input) # m_num_inputs THEN output
    ELSE LET acts == LayerActivations(weights, 1, input)
         IN  acts[Len(acts)]

(***************************************************************************)
(* Per-sample training (MLP::Train, MLP::_TrainOnExample).                 *)
(***************************************************************************)
\* loss::MSE, the scalar loss
MSELoss(expected, actual, sampleSizeReciprocalDen) ==
    Rnd(SumSeq([j \in 1 .. Len(actual) |->
                  Rnd(Mul(expected[j] - actual[j], expected[j] - actual[j]), Len(actual))]),
        sampleSizeReciprocalDen)

\* loss::MSE, the per-output derivative: -2/n_elem * diff * 1/N
MSEDeriv(expected, actual, sampleSizeReciprocalDen) ==
    [j \in 1 .. Len(actual) |->
        Rnd(-2 * (expected[j] - actual[j]), Len(actual) * sampleSizeReciprocalDen)]

\* Layer::UpdateWeights (accumulate = false), the new weights of the layer:
\* Node::UpdateWeight(j, -(dE_doj * doj_dnetj * dnetj_dwij), learning_rate)
LayerUpdateWeights(lw, f, input, deriv_error, learning_rate) ==
    [k \in 1 .. Len(lw) |->
        LET doj_dnetj == DerivActivation(f, GetInputInnerProdWithWeights(lw[k], input))
        IN  [j \in 1 .. Len(lw[k]) |->
                lw[k][j] + Mul(learning_rate,
                               -Mul(Mul(deriv_error[k], doj_dnetj), input[j]))]]

\* Layer::UpdateWeights, the deltas handed to the previous layer
LayerDeltas(lw, f, input, deriv_error) ==
    [j \in 1 .. Len(input) |->
        SumSeq([k \in 1 .. Len(lw) |->
            Mul(Mul(deriv_error[k],
                    DerivActivation(f, GetInputInnerProdWithWeights(lw[k], input))),
                lw[k][j])])]

\* MLP::UpdateWeights: layers in reverse order, i = m_num_hidden_layers .. 0
RECURSIVE UpdateWeights(_, _, _, _, _)
UpdateWeights(weights, acts, deriv_error, learning_rate, i) ==
    IF i < 1 THEN weights
    ELSE UpdateWeights(
            [weights EXCEPT ![i] =
                LayerUpdateWeights(weights[i], activations[i], acts[i],
                                   deriv_error, learning_rate)],
            acts,
            LayerDeltas(weights[i], activations[i], acts[i], deriv_error),
            learning_rate, i - 1)

\* MLP::_TrainOnExample: [weights, loss] after one example
TrainOnExample(weights, feat, label, learning_rate, N) ==
    LET acts == LayerActivations(weights, 1, feat)
        predicted_output == acts[Len(acts)]
    IN  [weights |-> UpdateWeights(weights, acts, MSEDeriv(label, predicted_output, N),
                                   learning_rate, Len(weights)),
         loss |-> MSELoss(label, predicted_output, N)]

\* one iteration of MLP::Train: every sample in dataset order
RECURSIVE TrainEpoch(_, _, _, _, _, _)
TrainEpoch(weights, features, labels, learning_rate, s, cost) ==
    IF s > Len(features) THEN [weights |-> weights, loss |-> cost]
    ELSE LET r == TrainOnExample(weights, features[s], labels[s], learning_rate,
                                 Len(features))
         IN  TrainEpoch(r.weights, features, labels, learning_rate, s + 1,
                        cost + r.loss)

\* MLP::Train: the weights after at most max_iterations iterations, stopping
\* early once the iteration's cost is below min_error_cost
RECURSIVE Train(_, _, _, _, _, _, _)
Train(weights, features, labels, learning_rate, max_iterations, min_error_cost, i) ==
    IF i >= max_iterations THEN weights
    ELSE LET r == TrainEpoch(weights, features, labels, learning_rate, 1, 0)
             current_iteration_cost_function == Rnd(r.loss, Len(features))
         IN  IF current_iteration_cost_function < min_error_cost THEN r.weights
             ELSE Train(r.weights, features, labels, learning_rate,
                        max_iterations, min_error_cost, i + 1)

(***************************************************************************)
(* Weight access (MLP::GetWeights, MLP::SetWeights, MLP::DrawWeights).     *)
(***************************************************************************)
\* MLP::GetWeights copies every weight of every node of every layer
GetWeights(weights) ==
    [n \in 1 .. Len(weights) |->
        [k \in 1 .. Len(weights[n]) |->
            [j \in 1 .. Len(weights[n][k]) |-> weights[n][k][j]]]]

\* MLP::SetWeights / Layer::SetWeights / Node::SetWeights: every node of
\* every layer is assigned the matching entry of the argument
SetWeights(weights, w) ==
    [n \in 1 .. Len(weights) |->
        [k \in 1 .. Len(weights[n]) |-> w[n][k]]]

\* MLP::DrawWeights: every weight is replaced by a fresh draw
DrawWeights == WeightTensors(DrawValues)

\* MLP.moveWeights: every weight w becomes 3 * accum * speed + w, with an
\* independent accum for every weight; the set of possible results
MoveWeights(weights, speed) ==
    { [n \in 1 .. Len(weights) |->
          [k \in 1 .. Len(weights[n]) |->
              [j \in 1 .. Len(weights[n][k]) |->
                  Mul(3 * noise[n][k][j], speed) + weights[n][k][j]]]] :
      noise \in WeightTensors(AccumValues) }

(***************************************************************************)
(* Node members used by mini-batch training (node.hpp).                    *)
(***************************************************************************)
\* Node::Node and Node::WeightInitialization: the bias, the bias gradient
\* accumulator and the RMSProp averages of every node start at zero, the
\* per-weight gradient accumulator starts empty
NewNodes ==
    [m_bias |-> [n \in 1 .. NumLayers |-> [k \in 1 .. layer_sizes[n + 1] |-> 0]],
     m_gradient_accumulator |->
        [n \in 1 .. NumLayers |-> [k \in 1 .. layer_sizes[n + 1] |-> << >>]],
     m_bias_gradient_accumulator |->
        [n \in 1 .. NumLayers |-> [k \in 1 .. layer_sizes[n + 1] |-> 0]],
     squared_gradient_avg |->
        [n \in 1 .. NumLayers |->
            [k \in 1 .. layer_sizes[n + 1] |-> [j \in 1 .. layer_sizes[n] |-> 0]]],
     bias_squared_gradient_avg |->
        [n \in 1 .. NumLayers |-> [k \in 1 .. layer_sizes[n + 1] |-> 0]]]

(***************************************************************************)
(* Dataset (dataset.hpp, dataset_impl.hpp).                                *)
(***************************************************************************)
\* Dataset::Dataset()
NewDataset ==
    [features_ |-> << >>, labels_ |-> << >>, timestamps_ |-> << >>,
     current_timestamp_ |-> 0, data_size_ |-> 0, output_size_ |-> 0,
     replay_memory_enabled_ |-> FALSE, forget_mode_ |-> "FIFO",
     max_examples_ |-> MaxExamples]

\* s without its element at 0-based index i (vector::erase)
Erase(s, i) == [n \in 1 .. Len(s) - 1 |-> IF n <= i THEN s[n] ELSE s[n + 1]]

\* Dataset::_AdjustSizes
AdjustSizes(ds) ==
    IF ds.features_ # << >>
    THEN [ds EXCEPT !.data_size_ = Len(ds.features_[1]),
                    !.output_size_ = Len(ds.labels_[1])]
    ELSE ds

\* the selection as it would be if every forget mode took the newest example
RemovableIndices_newest(ds) == {Len(ds.features_) - 1}

\* the indices Dataset::RemoveOneExcessExample can select
RemovableIndices(ds) ==
    LET N == Len(ds.features_)
        weights == [i \in 1 .. Len(ds.timestamps_) |->
                       ds.current_timestamp_ - ds.timestamps_[i]]
    IN  CASE ds.forget_mode_ = "FIFO" -> {0}
          [] ds.forget_mode_ = "RANDOM_EQUAL" -> 0 .. N - 1
          [] ds.forget_mode_ = "RANDOM_OLDER" ->
                IF SumSeq(weights) = 0 THEN 0 .. N - 1
                ELSE { CHOOSE i \in 0 .. Len(weights) - 1 :
                          /\ r < SumSeq(SubSeq(weights, 1, i + 1))
                          /\ \A j \in 0 .. i - 1 : r >= SumSeq(SubSeq(weights, 1, j + 1)) :
                       r \in 0 .. SumSeq(weights) - 1 }
          [] OTHER -> {0}

\* the removal as it would run if it erased from features_ alone
RemoveOneExcessExample_featuresonly(ds, index_to_remove) ==
    [ds EXCEPT !.features_ = Erase(ds.features_, index_to_remove)]

\* Dataset::RemoveOneExcessExample with the selected index
RemoveOneExcessExample(ds, index_to_remove) ==
    [ds EXCEPT !.features_ = Erase(ds.features_, index_to_remove),
               !.labels_ = Erase(ds.labels_, index_to_remove),
               !.timestamps_ = Erase(ds.timestamps_, index_to_remove)]

\* the push_back part of Add as it would run without current_timestamp_++
PushExample_nostamp(ds, feature, label) ==
    AdjustSizes([ds EXCEPT !.features_ = Append(ds.features_, feature),
                           !.labels_ = Append(ds.labels_, label),
                           !.timestamps_ = Append(ds.timestamps_, ds.current_timestamp_)])

\* the push_back part of Dataset::Add
PushExample(ds, feature, label) ==
    AdjustSizes([ds EXCEPT !.features_ = Append(ds.features_, feature),
                           !.labels_ = Append(ds.labels_, label),
                           !.timestamps_ = Append(ds.timestamps_, ds.current_timestamp_),
                           !.current_timestamp_ = ds.current_timestamp_ + 1])

\* Add as it would run if it rejected every example offered at capacity
DatasetAdd_rejectfull(ds, feature, label) ==
    IF /\ ds.data_size_ > 0
       /\ (Len(feature) # ds.data_size_ \/ Len(label) # ds.output_size_)
    THEN {[ok |-> FALSE, ds |-> ds, aborted |-> FALSE]}
    ELSE IF Len(ds.features_) >= ds.max_examples_
    THEN {[ok |-> FALSE, ds |-> ds, aborted |-> FALSE]}
    ELSE {[ok |-> TRUE, ds |-> PushExample(ds, feature, label), aborted |-> FALSE]}

\* Dataset::Add: the set of possible outcomes [ok, ds, aborted].  With replay
\* enabled and max_examples_ 0 it calls RemoveOneExcessExample on empty
\* vectors, whose erase(begin()) is undefined: the process is ended by the
\* invalid access, or the erase has no effect and Add goes on.
DatasetAdd(ds, feature, label) ==
    IF /\ ds.data_size_ > 0
       /\ (Len(feature) # ds.data_size_ \/ Len(label) # ds.output_size_)
    THEN {[ok |-> FALSE, ds |-> ds, aborted |-> FALSE]}
    ELSE IF Len(ds.features_) >= ds.max_examples_
    THEN IF ds.replay_memory_enabled_
         THEN IF Len(ds.features_) = 0
              THEN {[ok |-> FALSE, ds |-> ds, aborted |-> TRUE],
                    [ok |-> TRUE, ds |-> PushExample(ds, feature, label),
                     aborted |-> FALSE]}
              ELSE { [ok |-> TRUE,
                      ds |-> PushExample(RemoveOneExcessExample(ds, i), feature, label),
                      aborted |-> FALSE] :
                     i \in RemovableIndices(ds) }
         ELSE {[ok |-> FALSE, ds |-> ds, aborted |-> FALSE]}
    ELSE {[ok |-> TRUE, ds |-> PushExample(ds, feature, label), aborted |-> FALSE]}

\* Clear as it would run without the reset of current_timestamp_
DatasetClear_keepstamp(ds) ==
    [ds EXCEPT !.features_ = << >>, !.labels_ = << >>, !.timestamps_ = << >>,
               !.data_size_ = 0, !.output_size_ = 0]

\* Dataset::Clear
DatasetClear(ds) ==
    [ds EXCEPT !.features_ = << >>, !.labels_ = << >>, !.timestamps_ = << >>,
               !.current_timestamp_ = 0, !.data_size_ = 0, !.output_size_ = 0]

\* Dataset::AddBias / Dataset::GetFeatures
GetFeatures(ds, with_bias) ==
    [i \in 1 .. Len(ds.features_) |->
        IF with_bias THEN Append(ds.features_[i], One) ELSE ds.features_[i]]

\* Dataset::GetLabels
GetLabels(ds) == ds.labels_

(***************************************************************************)
(* The JavaScript IML (playground/js/nisps/iml.js): its control state.     *)
(* The weights and the input and output vectors do not influence it.  The  *)
(* Dataset class it uses is the example store of the specification, kept   *)
(* here by its size.                                                       *)
(***************************************************************************)
\* new Dataset(max): empty
JsNewDataset == [size |-> 0]

\* Dataset.add with replay disabled: appended below capacity, rejected at it
JsDatasetAdd(dataset) ==
    IF dataset.size < MaxExamples THEN [size |-> dataset.size + 1] ELSE dataset

\* Dataset.clear
JsDatasetClear(dataset) == [size |-> 0]

\* IML constructor
NewJsIML ==
    [constructed |-> TRUE,
     dataset |-> JsNewDataset,
     mode |-> "inference",
     performInference |-> TRUE,
     inputUpdated |-> TRUE,
     storedWeights |-> "null",
     weightsRandomised |-> FALSE]

\* IML.setInput
setInput(this, index, value) ==
    IF index >= n_inputs_ THEN this ELSE [this EXCEPT !.inputUpdated = TRUE]

\* IML.setInputs: values holds count elements
setInputs(this, count) == [this EXCEPT !.inputUpdated = TRUE]

\* IML.process
js_process(this) ==
    IF ~this.performInference \/ ~this.inputUpdated THEN this
    ELSE [this EXCEPT !.inputUpdated = FALSE]

\* IML.train: the part that touches the control state
js_train(this) ==
    IF this.weightsRandomised /\ this.storedWeights # "null"
    THEN [this EXCEPT !.weightsRandomised = FALSE]
    ELSE this

\* IML.setMode
setMode(this, mode) ==
    [(IF mode = "inference" /\ this.mode = "training" THEN js_train(this) ELSE this)
        EXCEPT !.mode = mode]

\* IML.saveExample
saveExample(this) ==
    IF this.performInference THEN [this EXCEPT !.performInference = FALSE]
    ELSE [this EXCEPT !.dataset = JsDatasetAdd(@), !.performInference = TRUE]

\* IML.clearDataset
clearDataset(this) == [this EXCEPT !.dataset = JsDatasetClear(@)]

\* IML.randomiseWeights
randomiseWeights(this) ==
    [this EXCEPT !.storedWeights = "weights", !.weightsRandomised = TRUE]

\* IML.moveWeights: the control state after this.process()
js_moveWeights(this) == js_process([this EXCEPT !.inputUpdated = TRUE])

\* the name the JavaScript IML uses for a Mode of the C++ IML
JsMode(mode) == IF mode = "Training" THEN "training" ELSE "inference"

\* the JavaScript IML after the call that corresponds to the call op(args)
\* of the C++ IML; without a JavaScript IML nothing happens
JsCall(this, op, args) ==
    IF ~this.constructed THEN this
    ELSE CASE op = "set_input" -> setInput(this, args[1], args[2])
           [] op = "set_inputs" -> setInputs(this, args[1])
           [] op = "process" -> js_process(this)
           [] op = "set_mode" -> setMode(this, JsMode(args[1]))
           [] op = "save_example" -> saveExample(this)
           [] op = "clear_dataset" -> clearDataset(this)
           [] op = "randomise_weights" -> randomiseWeights(this)
           [] op = "moveWeights" -> js_moveWeights(this)
           [] OTHER -> this

(***************************************************************************)
(* IML facade (iml.hpp, iml_impl.hpp): state.                              *)
(***************************************************************************)
VARIABLES
    mode_,                \* Mode::Inference or Mode::Training
    input_updated_,       \* the input-dirty flag
    perform_inference_,   \* the inference gate of the save protocol
    input_state_,
    output_state_,
    dataset_,             \* the Dataset the IML owns
    m_layers,             \* the weights of the MLP the IML owns
    stored_weights_,
    weights_randomised_,  \* the weights-were-perturbed flag
    called,               \* the last operation called, with its arguments
    logged,               \* the messages that operation passed to the logger
    calls,                \* the number of operations called so far
    added,                \* the examples a caller of the Dataset passed to the
                          \* unbroken run of successful Add calls ending now
    m_nodes,              \* the members of every Node besides its weights
    train_batch,          \* the activation record of MLP::TrainBatch
    train_run,            \* the activation record of MLP::Train
    progress,             \* the invocations of m_progress_callback so far
    events,               \* the accumulator operations and sample visits of
                          \* the current TrainBatch iteration, in order
    js,                   \* the control state of a JavaScript IML that is
                          \* given the same calls, if one was constructed
    flags,                \* the firmware's volatile inter-core flags
    globals,              \* the firmware's shared pointers
    pc                    \* where each core of the firmware is in its
                          \* start-up routine

iml_vars == <<mode_, input_updated_, perform_inference_, input_state_,
              output_state_, dataset_, m_layers, stored_weights_,
              weights_randomised_>>

\* the state of the firmware's start-up
boot_vars == <<flags, globals, pc>>

\* the state of a training run driven directly on the MLP
run_vars == <<m_nodes, train_batch, train_run, progress, events>>

vars == <<mode_, input_updated_, perform_inference_, input_state_,
          output_state_, dataset_, m_layers, stored_weights_,
          weights_randomised_, called, logged, calls, added,
          m_nodes, train_batch, train_run, progress, events, js,
          flags, globals, pc>>

\* IML::IML and the default member initialisers
IMLInit ==
    /\ mode_ = "Inference"
    /\ input_updated_ = FALSE
    /\ perform_inference_ = TRUE
    /\ input_state_ = [i \in 1 .. n_inputs_ |-> One \div 2]
    /\ output_state_ = [j \in 1 .. n_outputs_ |-> 0]
    /\ dataset_ = NewDataset
    /\ m_layers \in WeightTensors(DrawValues)
    /\ stored_weights_ = << >>
    /\ weights_randomised_ = FALSE
    /\ called = [op |-> "IML", args |-> << >>, repeat |-> FALSE, ret |-> "void"]
    /\ logged = << >>
    /\ calls = 0
    /\ added = [from_empty |-> TRUE, examples |-> << >>]
    /\ m_nodes = NewNodes
    /\ train_batch = [pc |-> "idle"]
    /\ train_run = [pc |-> "idle"]
    /\ progress = << >>
    /\ events = << >>
    /\ flags = [core_0_ready |-> FALSE, core_1_ready |-> FALSE,
                serial_ready |-> FALSE, interface_ready |-> FALSE]
    /\ globals = [interface |-> "nullptr", midi_interf |-> "nullptr"]
    /\ pc = [core \in {0, 1} |-> [at |-> 1, in_delay |-> FALSE]]

\* a C++ IML on its own
Init == IMLInit /\ js = [constructed |-> FALSE]

\* a C++ IML and a JavaScript IML constructed with the same arguments
PortInit == IMLInit /\ js = NewJsIML

\* a caller invokes the operation op with the arguments args and gets ret
\* back; repeat tells whether the call before it was the same call.  No call
\* follows one that ended the process.
Invoke(op, args, ret) ==
    /\ calls < MaxCalls
    /\ called.ret # "abort"
    /\ train_batch.pc = "idle"
    /\ train_run.pc = "idle"
    /\ UNCHANGED run_vars
    /\ UNCHANGED boot_vars
    /\ calls' = calls + 1
    /\ called' = [op |-> op, args |-> args,
                  repeat |-> called.op = op /\ called.args = args,
                  ret |-> ret]

\* a caller invokes the public IML operation op, all of which return void
Call(op, args) ==
    /\ Invoke(op, args, "void")
    /\ added' = added
    /\ js' = JsCall(js, op, args)

(***************************************************************************)
(* IML facade: operations.                                                 *)
(***************************************************************************)
\* the clamp as it would be without its upper test
Clamp01_lower(value) == IF value < 0 THEN 0 ELSE value

\* the clamp of set_input: if (value < 0) value = 0; if (value > 1) value = 1
Clamp01(value) == IF value < 0 THEN 0 ELSE IF value > One THEN One ELSE value

\* input_state_ after IML::set_input(index, value) (0-based index)
SetInputState(state, index, value) ==
    IF index >= n_inputs_ THEN state
    ELSE [state EXCEPT ![index + 1] = Clamp01(value)]

\* IML::set_input
set_input(index, value) ==
    /\ Call("set_input", <<index, value>>)
    /\ input_state_' = SetInputState(input_state_, index, value)
    /\ input_updated_' = IF index >= n_inputs_ THEN input_updated_ ELSE TRUE
    /\ logged' = << >>
    /\ UNCHANGED <<mode_, perform_inference_, output_state_, dataset_, m_layers,
                   stored_weights_, weights_randomised_>>

\* the loop of IML::set_inputs: set_input(i, values[i]) for i < count, i < n_inputs_
RECURSIVE SetInputsState(_, _, _, _)
SetInputsState(state, values, count, i) ==
    IF i < count /\ i < n_inputs_
    THEN SetInputsState(SetInputState(state, i, values[i + 1]), values, count, i + 1)
    ELSE state

\* IML::set_inputs
set_inputs(values, count) ==
    /\ Call("set_inputs", <<count>>)
    /\ input_state_' = SetInputsState(input_state_, values, count, 0)
    /\ input_updated_' = IF count > 0 /\ n_inputs_ > 0 THEN TRUE ELSE input_updated_
    /\ logged' = << >>
    /\ UNCHANGED <<mode_, perform_inference_, output_state_, dataset_, m_layers,
                   stored_weights_, weights_randomised_>>

\* IML::set_output: clamp-and-store into output_state_
set_output(index, value) ==
    /\ Call("set_output", <<index, value>>)
    /\ output_state_' = IF index >= n_outputs_ THEN output_state_
                        ELSE [output_state_ EXCEPT ![index + 1] = Clamp01(value)]
    /\ logged' = << >>
    /\ UNCHANGED <<mode_, input_updated_, perform_inference_, input_state_, dataset_,
                   m_layers, stored_weights_, weights_randomised_>>

\* IML::set_outputs: the bulk form of set_output
set_outputs(values, count) ==
    /\ Call("set_outputs", <<count>>)
    /\ output_state_' = [j \in 1 .. n_outputs_ |->
                            IF j - 1 < count THEN Clamp01(values[j]) ELSE output_state_[j]]
    /\ logged' = << >>
    /\ UNCHANGED <<mode_, input_updated_, perform_inference_, input_state_, dataset_,
                   m_layers, stored_weights_, weights_randomised_>>

\* "Add bias term" / "Run inference": the forward pass of input_state_ with
\* 1.0 appended, into a fresh std::vector<Float> output(n_outputs_)
RunInference(weights, state) ==
    GetOutput(weights, Append(state, One), [j \in 1 .. n_outputs_ |-> 0])

\* process as it would run without the test of the input-dirty flag
process_nodirtycheck ==
    /\ Call("process", << >>)
    /\ IF ~perform_inference_
       THEN UNCHANGED <<output_state_, input_updated_>>
       ELSE /\ output_state_' = RunInference(m_layers, input_state_)
            /\ input_updated_' = FALSE
    /\ logged' = << >>
    /\ UNCHANGED <<mode_, perform_inference_, input_state_, dataset_, m_layers,
                   stored_weights_, weights_randomised_>>

\* process as it would run without the inference gate
process_ungated ==
    /\ Call("process", << >>)
    /\ IF ~input_updated_
       THEN UNCHANGED <<output_state_, input_updated_>>
       ELSE /\ output_state_' = RunInference(m_layers, input_state_)
            /\ input_updated_' = FALSE
    /\ logged' = << >>
    /\ UNCHANGED <<mode_, perform_inference_, input_state_, dataset_, m_layers,
                   stored_weights_, weights_randomised_>>

\* process as it would run without appending the bias term
process_nobias ==
    /\ Call("process", << >>)
    /\ IF ~perform_inference_ \/ ~input_updated_
       THEN UNCHANGED <<output_state_, input_updated_>>
       ELSE /\ output_state_' = GetOutput(m_layers, input_state_,
                                          [j \in 1 .. n_outputs_ |-> 0])
            /\ input_updated_' = FALSE
    /\ logged' = << >>
    /\ UNCHANGED <<mode_, perform_inference_, input_state_, dataset_, m_layers,
                   stored_weights_, weights_randomised_>>

\* IML::process
process ==
    /\ Call("process", << >>)
    /\ IF ~perform_inference_ \/ ~input_updated_
       THEN UNCHANGED <<output_state_, input_updated_>>
       ELSE /\ output_state_' = RunInference(m_layers, input_state_)
            /\ input_updated_' = FALSE
    /\ logged' = << >>
    /\ UNCHANGED <<mode_, perform_inference_, input_state_, dataset_, m_layers,
                   stored_weights_, weights_randomised_>>

\* IML::train, "Restore weights if they were randomised"
TrainRestore(weights, stored, randomised) ==
    IF randomised THEN SetWeights(weights, stored) ELSE weights

\* train as it would run if the snapshot were restored after the training
train_restore_last ==
    LET features == GetFeatures(dataset_, TRUE)
        labels == GetLabels(dataset_)
    IN  IF features = << >> \/ labels = << >>
        THEN [weights |-> TrainRestore(m_layers, stored_weights_, weights_randomised_),
              output |-> output_state_,
              logged |-> <<"Empty dataset, skipping training.">>]
        ELSE LET trained == Train(m_layers, features, labels, learning_rate_,
                                  MaxIter, convergence_threshold_, 0)
                 restored == TrainRestore(trained, stored_weights_, weights_randomised_)
             IN  [weights |-> restored,
                  output |-> RunInference(restored, input_state_),
                  logged |-> <<"Training...", "Training complete.">>]

\* IML::train: the state it leaves behind
train ==
    LET restored == TrainRestore(m_layers, stored_weights_, weights_randomised_)
        features == GetFeatures(dataset_, TRUE)
        labels == GetLabels(dataset_)
    IN  IF features = << >> \/ labels = << >>
        THEN [weights |-> restored, output |-> output_state_,
              logged |-> <<"Empty dataset, skipping training.">>]
        ELSE LET trained == Train(restored, features, labels, learning_rate_,
                                  MaxIter, convergence_threshold_, 0)
             IN  [weights |-> trained,
                  output |-> RunInference(trained, input_state_),
                  logged |-> <<"Training...", "Training complete.">>]

\* set_mode as it would run if every set_mode(Inference) trained
set_mode_always(mode) ==
    /\ Call("set_mode", <<mode>>)
    /\ IF mode = "Inference"
       THEN /\ m_layers' = train.weights
            /\ weights_randomised_' = FALSE
            /\ output_state_' = train.output
            /\ logged' = train.logged
       ELSE /\ UNCHANGED <<m_layers, weights_randomised_, output_state_>>
            /\ logged' = << >>
    /\ mode_' = mode
    /\ UNCHANGED <<input_updated_, perform_inference_, input_state_, dataset_,
                   stored_weights_>>

\* set_mode as it would run if the mode were stored only when no training ran
set_mode_keep(mode) ==
    /\ Call("set_mode", <<mode>>)
    /\ IF mode = "Inference" /\ mode_ = "Training"
       THEN /\ m_layers' = train.weights
            /\ weights_randomised_' = FALSE
            /\ output_state_' = train.output
            /\ logged' = train.logged
            /\ mode_' = mode_
       ELSE /\ UNCHANGED <<m_layers, weights_randomised_, output_state_>>
            /\ logged' = << >>
            /\ mode_' = mode
    /\ UNCHANGED <<input_updated_, perform_inference_, input_state_, dataset_,
                   stored_weights_>>

\* IML::set_mode
set_mode(mode) ==
    /\ Call("set_mode", <<mode>>)
    /\ IF mode = "Inference" /\ mode_ = "Training"
       THEN /\ m_layers' = train.weights
            /\ weights_randomised_' = FALSE
            /\ output_state_' = train.output
            /\ logged' = train.logged
       ELSE /\ UNCHANGED <<m_layers, weights_randomised_, output_state_>>
            /\ logged' = << >>
    /\ mode_' = mode
    /\ UNCHANGED <<input_updated_, perform_inference_, input_state_, dataset_,
                   stored_weights_>>

\* save_example as it would run if the commit did not reopen the gate
save_example_noreopen ==
    /\ Call("save_example", << >>)
    /\ IF perform_inference_
       THEN /\ perform_inference_' = FALSE
            /\ logged' = <<"Move to desired output position...">>
            /\ UNCHANGED <<dataset_, output_state_>>
       ELSE /\ \E r \in DatasetAdd(dataset_, input_state_, output_state_) :
                    dataset_' = r.ds
            /\ perform_inference_' = FALSE
            /\ output_state_' = RunInference(m_layers, input_state_)
            /\ logged' = <<"Example saved.">>
    /\ UNCHANGED <<mode_, input_updated_, input_state_, m_layers, stored_weights_,
                   weights_randomised_>>

\* IML::save_example
save_example ==
    /\ Call("save_example", << >>)
    /\ IF perform_inference_
       THEN /\ perform_inference_' = FALSE
            /\ logged' = <<"Move to desired output position...">>
            /\ UNCHANGED <<dataset_, output_state_>>
       ELSE /\ \E r \in DatasetAdd(dataset_, input_state_, output_state_) :
                    dataset_' = r.ds
            /\ perform_inference_' = TRUE
            /\ output_state_' = RunInference(m_layers, input_state_)
            /\ logged' = <<"Example saved.">>
    /\ UNCHANGED <<mode_, input_updated_, input_state_, m_layers, stored_weights_,
                   weights_randomised_>>

\* clear_dataset as it would run without the mode test
clear_dataset_anymode ==
    /\ Call("clear_dataset", << >>)
    /\ dataset_' = DatasetClear(dataset_)
    /\ logged' = <<"Dataset cleared.">>
    /\ UNCHANGED <<mode_, input_updated_, perform_inference_, input_state_,
                   output_state_, m_layers, stored_weights_, weights_randomised_>>

\* IML::clear_dataset
clear_dataset ==
    /\ Call("clear_dataset", << >>)
    /\ IF mode_ = "Training"
       THEN /\ dataset_' = DatasetClear(dataset_)
            /\ logged' = <<"Dataset cleared.">>
       ELSE /\ UNCHANGED dataset_
            /\ logged' = << >>
    /\ UNCHANGED <<mode_, input_updated_, perform_inference_, input_state_,
                   output_state_, m_layers, stored_weights_, weights_randomised_>>

\* randomise_weights as it would run without the mode test
randomise_weights_anymode ==
    /\ Call("randomise_weights", << >>)
    /\ stored_weights_' = GetWeights(m_layers)
    /\ m_layers' \in DrawWeights
    /\ weights_randomised_' = TRUE
    /\ output_state_' = RunInference(m_layers', input_state_)
    /\ logged' = <<"Weights randomised.">>
    /\ UNCHANGED <<mode_, input_updated_, perform_inference_, input_state_, dataset_>>

\* randomise_weights as it would run if the snapshot were taken after the draw
randomise_weights_latesnapshot ==
    /\ Call("randomise_weights", << >>)
    /\ IF mode_ = "Training"
       THEN /\ m_layers' \in DrawWeights
            /\ stored_weights_' = GetWeights(m_layers')
            /\ weights_randomised_' = TRUE
            /\ output_state_' = RunInference(m_layers', input_state_)
            /\ logged' = <<"Weights randomised.">>
       ELSE /\ UNCHANGED <<stored_weights_, m_layers, weights_randomised_,
                           output_state_>>
            /\ logged' = << >>
    /\ UNCHANGED <<mode_, input_updated_, perform_inference_, input_state_, dataset_>>

\* IML::randomise_weights
randomise_weights ==
    /\ Call("randomise_weights", << >>)
    /\ IF mode_ = "Training"
       THEN /\ stored_weights_' = GetWeights(m_layers)
            /\ m_layers' \in DrawWeights
            /\ weights_randomised_' = TRUE
            /\ output_state_' = RunInference(m_layers', input_state_)
            /\ logged' = <<"Weights randomised.">>
       ELSE /\ UNCHANGED <<stored_weights_, m_layers, weights_randomised_,
                           output_state_>>
            /\ logged' = << >>
    /\ UNCHANGED <<mode_, input_updated_, perform_inference_, input_state_, dataset_>>

\* moveWeights as it would run if it took a snapshot as randomise_weights does
moveWeights_snapshot(speed) ==
    /\ Call("moveWeights", <<speed>>)
    /\ stored_weights_' = GetWeights(m_layers)
    /\ weights_randomised_' = TRUE
    /\ m_layers' \in MoveWeights(m_layers, speed)
    /\ IF perform_inference_
       THEN /\ output_state_' = RunInference(m_layers', input_state_)
            /\ input_updated_' = FALSE
       ELSE /\ UNCHANGED output_state_
            /\ input_updated_' = TRUE
    /\ logged' = << >>
    /\ UNCHANGED <<mode_, perform_inference_, input_state_, dataset_>>

\* IML.moveWeights (perturb_weights): mlp.moveWeights(speed), then
\* inputUpdated = true and process()
moveWeights(speed) ==
    /\ Call("moveWeights", <<speed>>)
    /\ m_layers' \in MoveWeights(m_layers, speed)
    /\ IF perform_inference_
       THEN /\ output_state_' = RunInference(m_layers', input_state_)
            /\ input_updated_' = FALSE
       ELSE /\ UNCHANGED output_state_
            /\ input_updated_' = TRUE
    /\ logged' = << >>
    /\ UNCHANGED <<mode_, perform_inference_, input_state_, dataset_,
                   stored_weights_, weights_randomised_>>

Next ==
    \/ \E index \in CallIndices, value \in CallValues : set_input(index, value)
    \/ \E count \in 0 .. n_inputs_ + 1, values \in [1 .. n_inputs_ + 1 -> BulkValues] :
          set_inputs(values, count)
    \/ \E index \in 0 .. n_outputs_, value \in CallValues : set_output(index, value)
    \/ \E count \in 0 .. n_outputs_ + 1, values \in [1 .. n_outputs_ + 1 -> BulkValues] :
          set_outputs(values, count)
    \/ process
    \/ \E mode \in {"Inference", "Training"} : set_mode(mode)
    \/ save_example
    \/ clear_dataset
    \/ randomise_weights
    \/ \E speed \in MoveSpeeds : moveWeights(speed)

Spec == Init /\ [][Next]_vars

(***************************************************************************)
(* Properties.                                                             *)
(***************************************************************************)
DatasetSize == Len(dataset_.features_)

C2_CommitAppends ==
    [][(called'.op = "save_example" /\ ~perform_inference_) =>
            /\ logged' = <<"Example saved.">>
            /\ Len(dataset_'.features_) = DatasetSize + 1
            /\ dataset_'.features_[DatasetSize + 1] = input_state_
            /\ dataset_'.labels_[DatasetSize + 1] = output_state_]_vars

\* C3: while the gate is closed process() changes neither output_state,
\* input_state, the input-dirty flag nor the weights
C3_ProcessGated ==
    [][(called'.op = "process" /\ ~perform_inference_) =>
            UNCHANGED <<output_state_, input_state_, input_updated_, m_layers>>]_vars

\* process() has been called with the gate closed, the input dirty and an
\* output that differs from the forward pass
C3_Witness ==
    /\ called.op = "process"
    /\ ~perform_inference_
    /\ input_updated_
    /\ output_state_ # RunInference(m_layers, input_state_)

\* C4: after process() with the input dirty and the gate open output_state
\* is the forward pass of input_state with 1.0 appended under the current
\* weights, and the input is no longer dirty
C4_ProcessForward ==
    [][(called'.op = "process" /\ perform_inference_ /\ input_updated_) =>
            /\ output_state_' =
                 LET acts == LayerActivations(m_layers', 1, Append(input_state_', One))
                 IN  acts[Len(acts)]
            /\ ~input_updated_']_vars

\* process() has run a forward pass whose result is not the zero vector
C4_Witness ==
    /\ called.op = "process"
    /\ perform_inference_
    /\ ~input_updated_
    /\ output_state_ # [j \in 1 .. n_outputs_ |-> 0]

\* the forward pass of a state vector with 1.0 appended
Forward(weights, state) ==
    LET acts == LayerActivations(weights, 1, Append(state, One))
    IN  acts[Len(acts)]

\* the weights per-sample training leaves when started from w on the dataset
TrainedFrom(w) ==
    Train(w, GetFeatures(dataset_, TRUE), GetLabels(dataset_), learning_rate_,
          MaxIter, convergence_threshold_, 0)

SetModeCalled(mode) == called'.op = "set_mode" /\ called'.args = <<mode>>

\* C5 as claimed: set_mode(Inference) in Training mode restores the snapshot
\* if the weights were perturbed, then trains when the dataset is non-empty,
\* then runs one inference pass into output_state; set_mode(Training) never
\* trains and never changes weights
C5_Original ==
    [][/\ (SetModeCalled("Inference") /\ mode_ = "Training") =>
            LET restored == IF weights_randomised_ THEN stored_weights_ ELSE m_layers
                trained == IF DatasetSize > 0 THEN TrainedFrom(restored) ELSE restored
            IN  /\ m_layers' = trained
                /\ ~weights_randomised_'
                /\ output_state_' = Forward(trained, input_state_)
                /\ mode_' = "Inference"
       /\ SetModeCalled("Training") =>
            /\ m_layers' = m_layers
            /\ logged' = << >>
            /\ mode_' = "Training"]_vars

\* C5 as amended: the inference pass is run only when the dataset is
\* non-empty; with an empty dataset output_state is left as it was
C5_TrainOnModeExit ==
    [][/\ (SetModeCalled("Inference") /\ mode_ = "Training") =>
            LET restored == IF weights_randomised_ THEN stored_weights_ ELSE m_layers
                trained == IF DatasetSize > 0 THEN TrainedFrom(restored) ELSE restored
            IN  /\ m_layers' = trained
                /\ ~weights_randomised_'
                /\ output_state_' = IF DatasetSize > 0 THEN Forward(trained, input_state_)
                                    ELSE output_state_
                /\ mode_' = "Inference"
       /\ SetModeCalled("Training") =>
            /\ m_layers' = m_layers
            /\ logged' = << >>
            /\ mode_' = "Training"]_vars

\* set_mode(Inference) has trained a network whose snapshot had been taken,
\* and the training moved the weights away from the snapshot
C5_Witness ==
    /\ called.op = "set_mode"
    /\ called.args = <<"Inference">>
    /\ logged = <<"Training...", "Training complete.">>
    /\ stored_weights_ # << >>
    /\ m_layers # stored_weights_
    /\ mode_ = "Inference"

\* C6: in Training mode with an empty dataset, randomise_weights() followed
\* by set_mode(Inference) leaves the weights held before randomise_weights()
\* and clears weights_were_perturbed: the first step snapshots the weights,
\* the second restores the snapshot
C6_RandomiseRestore ==
    [][/\ (called'.op = "randomise_weights" /\ mode_ = "Training") =>
            /\ stored_weights_' = m_layers
            /\ weights_randomised_'
       /\ (/\ called.op = "randomise_weights"
           /\ mode_ = "Training"
           /\ DatasetSize = 0
           /\ SetModeCalled("Inference")) =>
            /\ m_layers' = stored_weights_
            /\ ~weights_randomised_']_vars

\* set_mode(Inference) has directly followed a randomise_weights() that had
\* changed the weights, on an empty dataset
C6_Witness ==
    /\ called.op = "set_mode"
    /\ called.args = <<"Inference">>
    /\ logged = <<"Empty dataset, skipping training.">>
    /\ m_layers = stored_weights_
    /\ output_state_ # Forward(m_layers, input_state_)
    /\ ~weights_randomised_

\* C7: in Inference mode clear_dataset() and randomise_weights() leave the
\* dataset, the weights, the snapshot, the flag and output_state unchanged
C7_TrainingOnly ==
    [][(called'.op \in {"clear_dataset", "randomise_weights"} /\ mode_ = "Inference") =>
            UNCHANGED <<dataset_, m_layers, stored_weights_, weights_randomised_,
                        output_state_>>]_vars

\* clear_dataset() has been called in Inference mode on a non-empty dataset
C7_Witness ==
    /\ called.op = "clear_dataset"
    /\ mode_ = "Inference"
    /\ DatasetSize > 0

Min(a, b) == IF a < b THEN a ELSE b

Max(a, b) == IF a > b THEN a ELSE b

\* C8: set_input(i, v) with i < n_inputs stores clamp(v, 0, 1) at
\* input_state[i] and sets the input-dirty flag, set_output(j, v) with
\* j < n_outputs stores clamp(v, 0, 1) at output_state[j], and a call with an
\* out-of-range index changes no state
C8_ClampedStore ==
    [][/\ called'.op = "set_input" =>
            LET i == called'.args[1]
                v == called'.args[2]
            IN  IF i < n_inputs_
                THEN input_state_'[i + 1] = Max(0, Min(v, One)) /\ input_updated_'
                ELSE UNCHANGED iml_vars
       /\ called'.op = "set_output" =>
            LET j == called'.args[1]
                v == called'.args[2]
            IN  IF j < n_outputs_
                THEN output_state_'[j + 1] = Max(0, Min(v, One))
                ELSE UNCHANGED iml_vars]_vars

\* set_input has stored a value that was above the range
C8_Witness ==
    /\ called.op = "set_input"
    /\ called.args[1] < n_inputs_
    /\ called.args[2] > One
    /\ input_state_[called.args[1] + 1] = One
    /\ input_updated_

\* C9 as claimed: every set_mode(Inference) on a non-empty dataset, also one
\* made when the mode is already Inference, runs training
C9_Original ==
    [][(SetModeCalled("Inference") /\ DatasetSize > 0) =>
            /\ logged' = <<"Training...", "Training complete.">>
            /\ m_layers' = TrainedFrom(IF weights_randomised_ THEN stored_weights_
                                       ELSE m_layers)]_vars

\* C9 as amended: every set_mode(Inference) made in Training mode on a
\* non-empty dataset runs training afresh; a set_mode(Inference) made when
\* the mode is already Inference runs no training and changes no state
C9_TrainsFromTrainingOnly ==
    [][/\ (SetModeCalled("Inference") /\ DatasetSize > 0 /\ mode_ = "Training") =>
            /\ logged' = <<"Training...", "Training complete.">>
            /\ m_layers' = TrainedFrom(IF weights_randomised_ THEN stored_weights_
                                       ELSE m_layers)
       /\ (SetModeCalled("Inference") /\ mode_ = "Inference") =>
            /\ logged' = << >>
            /\ UNCHANGED iml_vars]_vars

\* set_mode(Inference) has been called in Inference mode on a non-empty
\* dataset that further training would still change the weights for
C9_Witness ==
    /\ called.op = "set_mode"
    /\ called.args = <<"Inference">>
    /\ logged = << >>
    /\ DatasetSize > 0
    /\ TrainedFrom(m_layers) # m_layers

\* C10: of two consecutive set_mode(Inference) calls the second leaves the
\* weights exactly as the first left them
C10_SecondCallKeepsWeights ==
    [][(SetModeCalled("Inference") /\ called'.repeat) => m_layers' = m_layers]_vars

\* a second set_mode(Inference) has directly followed a first one, on a
\* dataset that further training would still change the weights for
C10_Witness ==
    /\ called.op = "set_mode"
    /\ called.args = <<"Inference">>
    /\ called.repeat
    /\ DatasetSize > 0
    /\ TrainedFrom(m_layers) # m_layers

\* C11: a process() call made when the input is not dirty, or made right
\* after another process() call, changes no component of the IML state, so
\* get_outputs() returns the same vector after both calls
C11_ProcessIdempotent ==
    [][(called'.op = "process" /\ (~input_updated_ \/ called.op = "process")) =>
            UNCHANGED iml_vars]_vars

\* a second consecutive process() has returned; the first ran the forward pass
C11_Witness ==
    /\ called.op = "process"
    /\ called.repeat
    /\ perform_inference_
    /\ ~input_updated_
    /\ output_state_ = RunInference(m_layers, input_state_)
    /\ output_state_ # [j \in 1 .. n_outputs_ |-> 0]

\* C12: clear_dataset() in Training mode leaves the dataset with no example
\* and current_timestamp_ 0, and changes neither perform_inference,
\* input_state, output_state nor the MLP weights
C12_ClearFrame ==
    [][(called'.op = "clear_dataset" /\ mode_ = "Training") =>
            /\ Len(dataset_'.features_) = 0
            /\ Len(dataset_'.labels_) = 0
            /\ Len(dataset_'.timestamps_) = 0
            /\ dataset_'.current_timestamp_ = 0
            /\ UNCHANGED <<perform_inference_, input_state_, output_state_,
                           m_layers>>]_vars

\* clear_dataset() has run in Training mode while the gate was closed and the
\* user had edited the output
C12_Witness ==
    /\ called.op = "clear_dataset"
    /\ logged = <<"Dataset cleared.">>
    /\ mode_ = "Training"
    /\ ~perform_inference_
    /\ output_state_ = [j \in 1 .. n_outputs_ |-> One]
    /\ DatasetSize = 0
    /\ dataset_.current_timestamp_ = 0

C18_OutputConsistent ==
    [][(/\ called.op = "randomise_weights"
        /\ mode_ = "Training"
        /\ SetModeCalled("Inference")
        /\ perform_inference_'
        /\ ~input_updated_') =>
            output_state_' = Forward(m_layers', input_state_')]_vars

\* C19: in a run of consecutive randomise_weights() calls made in Training
\* mode, every call after the first leaves stored_weights, the tensor the
\* next set_mode(Inference) restores, as the first call set it: the weights
\* held before the first call
C19_FirstSnapshotKept ==
    [][(/\ called.op = "randomise_weights"
        /\ mode_ = "Training"
        /\ called'.op = "randomise_weights") =>
            stored_weights_' = stored_weights_]_vars

\* C20: while the inference gate is closed, process, set_input, set_inputs,
\* set_mode, randomise_weights and clear_dataset leave output_state as it is
C20_GateClosedFrame ==
    [][(/\ ~perform_inference_
        /\ called'.op \in {"process", "set_input", "set_inputs", "set_mode",
                           "randomise_weights", "clear_dataset"}) =>
            output_state_' = output_state_]_vars

(***************************************************************************)
(* A Dataset driven directly through its public interface.                 *)
(***************************************************************************)
\* the examples a caller passes to Add: three of one width and one of another
AddExamples ==
    { <<<<0>>, <<0>>>>, <<<<One>>, <<One>>>>, <<<<One>>, <<0>>>>,
      <<<<0, One>>, <<0>>>> }

\* the examples a caller passes to Load
LoadExamples == { <<<<0>>, <<0>>>>, <<<<One>>, <<One>>>> }

\* the example sets a caller passes to Load: up to one more than the default
\* capacity
LoadSets == UNION { [1 .. n -> LoadExamples] : n \in 0 .. MaxExamples + 1 }

\* the capacities a caller passes to SetMaxExamples
MaxExamplesValues == 0 .. MaxExamples + 1

ForgetModes == {"FIFO", "RANDOM_EQUAL", "RANDOM_OLDER"}

\* Dataset::Load
DatasetLoad(ds, features, labels) ==
    LET loaded == AdjustSizes([ds EXCEPT !.features_ = features,
                                         !.labels_ = labels])
    IN  [loaded EXCEPT !.timestamps_ = [i \in 1 .. Len(features) |-> i - 1],
                       !.current_timestamp_ = Len(features)]

\* the loop as it would run if the truncation kept the newest examples
TrimExcess_keeplast(ds) ==
    LET n == Len(ds.features_)
    IN  IF n > ds.max_examples_
        THEN {[ds EXCEPT !.features_ = SubSeq(ds.features_, n - ds.max_examples_ + 1, n),
                         !.labels_ = SubSeq(ds.labels_, n - ds.max_examples_ + 1, n),
                         !.timestamps_ = SubSeq(ds.timestamps_, n - ds.max_examples_ + 1, n)]}
        ELSE {ds}

\* the loop of Dataset::SetMaxExamples: the set of datasets it can leave
RECURSIVE TrimExcess(_)
TrimExcess(ds) ==
    IF Len(ds.features_) > ds.max_examples_
    THEN IF ds.replay_memory_enabled_
         THEN UNION { TrimExcess(RemoveOneExcessExample(ds, i)) :
                      i \in RemovableIndices(ds) }
         ELSE {[ds EXCEPT !.features_ = SubSeq(ds.features_, 1, ds.max_examples_),
                          !.labels_ = SubSeq(ds.labels_, 1, ds.max_examples_),
                          !.timestamps_ = SubSeq(ds.timestamps_, 1, ds.max_examples_)]}
    ELSE {ds}

\* Dataset::SetMaxExamples
DatasetSetMaxExamples(ds, max) == TrimExcess([ds EXCEPT !.max_examples_ = max])

\* the members of the IML instance a Dataset operation does not touch
dataset_frame == <<mode_, input_updated_, perform_inference_, input_state_,
                   output_state_, m_layers, stored_weights_, weights_randomised_,
                   logged, js>>

\* the run of successful Add calls is broken by any other operation
NoRun == [from_empty |-> Len(dataset_'.features_) = 0, examples |-> << >>]

\* Dataset::Add called by a user of the Dataset
Add(feature, label) ==
    \E r \in DatasetAdd(dataset_, feature, label) :
        /\ Invoke("Add", <<feature, label>>,
                  IF r.aborted THEN "abort" ELSE IF r.ok THEN "true" ELSE "false")
        /\ dataset_' = r.ds
        /\ added' = IF r.ok /\ ~r.aborted
                    THEN [added EXCEPT !.examples = Append(@, <<feature, label>>)]
                    ELSE added
        /\ UNCHANGED dataset_frame

\* Dataset::Clear called by a user of the Dataset
Clear ==
    /\ Invoke("Clear", << >>, "void")
    /\ dataset_' = DatasetClear(dataset_)
    /\ added' = NoRun
    /\ UNCHANGED dataset_frame

\* Dataset::Load called by a user of the Dataset
Load(features, labels) ==
    /\ Invoke("Load", <<features, labels>>, "void")
    /\ dataset_' = DatasetLoad(dataset_, features, labels)
    /\ added' = NoRun
    /\ UNCHANGED dataset_frame

\* Dataset::SetMaxExamples called by a user of the Dataset
SetMaxExamples(max) ==
    /\ Invoke("SetMaxExamples", <<max>>, "void")
    /\ dataset_' \in DatasetSetMaxExamples(dataset_, max)
    /\ added' = NoRun
    /\ UNCHANGED dataset_frame

\* Dataset::ReplayMemory
ReplayMemory(enabled) ==
    /\ Invoke("ReplayMemory", <<enabled>>, "void")
    /\ dataset_' = [dataset_ EXCEPT !.replay_memory_enabled_ = enabled]
    /\ added' = NoRun
    /\ UNCHANGED dataset_frame

\* Dataset::SetForgetMode
SetForgetMode(mode) ==
    /\ Invoke("SetForgetMode", <<mode>>, "void")
    /\ dataset_' = [dataset_ EXCEPT !.forget_mode_ = mode]
    /\ added' = NoRun
    /\ UNCHANGED dataset_frame

\* a default-constructed Dataset; the IML members around it stay as built
DatasetInit ==
    /\ Init
    /\ m_layers \in WeightTensors({One})

DatasetNext ==
    \/ \E e \in AddExamples : Add(e[1], e[2])
    \/ Clear
    \/ \E s \in LoadSets :
          Load([i \in 1 .. Len(s) |-> s[i][1]], [i \in 1 .. Len(s) |-> s[i][2]])
    \/ \E max \in MaxExamplesValues : SetMaxExamples(max)
    \/ \E enabled \in BOOLEAN : ReplayMemory(enabled)
    \/ \E mode \in ForgetModes : SetForgetMode(mode)

DatasetSpec == DatasetInit /\ [][DatasetNext]_vars

\* C13: in every state a sequence of Dataset operations reaches, the number
\* of stored examples is at most max_examples
C13_SizeWithinCapacity ==
    Len(dataset_.features_) <= dataset_.max_examples_

\* the example <<feature, label>> passes the width test of Add
FitsWidths(ds, feature, label) ==
    ds.data_size_ = 0
        \/ (Len(feature) = ds.data_size_ /\ Len(label) = ds.output_size_)

\* ds after the eviction of the example at index i and the append of
\* <<feature, label>>
EvictedAndAppended(ds, i, feature, label) ==
    [ds EXCEPT !.features_ = Append(Erase(ds.features_, i), feature),
               !.labels_ = Append(Erase(ds.labels_, i), label),
               !.timestamps_ = Append(Erase(ds.timestamps_, i), ds.current_timestamp_),
               !.current_timestamp_ = ds.current_timestamp_ + 1]

MLPInputs == UNION { [1 .. n -> {0, One}] : n \in m_num_inputs - 1 .. m_num_inputs + 1 }

\* the members of the IML instance an MLP operation does not touch
mlp_frame == <<mode_, input_updated_, perform_inference_, input_state_,
               dataset_, stored_weights_, weights_randomised_, logged, added, js>>

\* MLP::GetOutput(input, &output) called by a user of the MLP; the function
\* returns void on every path
CallGetOutput(input) ==
    /\ Invoke("GetOutput", <<input>>, "void")
    /\ output_state_' = GetOutput(m_layers, input, output_state_)
    /\ UNCHANGED m_layers
    /\ UNCHANGED mlp_frame

\* MLP::DrawWeights called by a user of the MLP
CallDrawWeights ==
    /\ Invoke("DrawWeights", << >>, "void")
    /\ m_layers' \in DrawWeights
    /\ UNCHANGED output_state_
    /\ UNCHANGED mlp_frame

MLPNext ==
    \/ \E input \in MLPInputs : CallGetOutput(input)
    \/ CallDrawWeights

MLPSpec == Init /\ [][MLPNext]_vars

\* C17: a forward pass called with an input whose length is not the
\* network's input width reports a shape error to its caller and changes
\* neither the weights nor the caller's output vector
C17_ShapeErrorReported ==
    [][(called'.op = "GetOutput" /\ Len(called'.args[1]) # m_num_inputs) =>
            /\ called'.ret = "ShapeMismatch"
            /\ m_layers' = m_layers
            /\ output_state_' = output_state_]_vars

\* C21: in every reachable state of the IML, weights_were_perturbed implies
\* that the mode is Training: no snapshot stays pending in Inference mode
C21_PendingOnlyInTraining ==
    weights_randomised_ => mode_ = "Training"

\* a snapshot was taken in Training mode and the flag was cleared on the way
\* back to Inference mode
C21_Witness ==
    /\ mode_ = "Inference"
    /\ stored_weights_ # << >>
    /\ ~weights_randomised_
    /\ called.op = "set_mode"

C23_ShapeRejection ==
    [][called'.op = "Add" =>
        LET n == Len(dataset_.features_)
            feature == called'.args[1]
            label == called'.args[2]
            differs == /\ n > 0
                       /\ \/ Len(feature) # Len(dataset_.features_[1])
                          \/ Len(label) # Len(dataset_.labels_[1])
        IN  /\ differs => called'.ret = "false"
            /\ (~differs /\ n < dataset_.max_examples_) =>
                    /\ called'.ret = "true"
                    /\ dataset_'.data_size_ = Len(feature)
                    /\ dataset_'.output_size_ = Len(label)
            /\ called'.ret = "false" => dataset_' = dataset_]_vars

\* the elements of s at the indices in K, in order
KeepAt(s, K) ==
    LET F[i \in 0 .. Len(s)] ==
            IF i = 0 THEN << >>
            ELSE IF i \in K THEN Append(F[i - 1], s[i]) ELSE F[i - 1]
    IN  F[Len(s)]

\* C24: SetMaxExamples(m) leaves min(N, m) examples and capacity m: with
\* replay disabled the first min(N, m) in storage order; with replay enabled
\* and FIFO the newest min(N, m); with replay enabled and a random forget
\* mode some min(N, m) of them in storage order; every kept feature keeps
\* its own label and timestamp, and nothing else of the dataset changes
C24_SetMaxExamplesTruncates ==
    [][called'.op = "SetMaxExamples" =>
        LET n == Len(dataset_.features_)
            m == called'.args[1]
            kept == Min(n, m)
            Kept(K) == /\ dataset_'.features_ = KeepAt(dataset_.features_, K)
                       /\ dataset_'.labels_ = KeepAt(dataset_.labels_, K)
                       /\ dataset_'.timestamps_ = KeepAt(dataset_.timestamps_, K)
        IN  /\ dataset_'.max_examples_ = m
            /\ Len(dataset_'.features_) = kept
            /\ Len(dataset_'.features_) <= m
            /\ ~dataset_.replay_memory_enabled_ => Kept(1 .. kept)
            /\ (dataset_.replay_memory_enabled_ /\ dataset_.forget_mode_ = "FIFO") =>
                    Kept(n - kept + 1 .. n)
            /\ dataset_.replay_memory_enabled_ =>
                    \E K \in SUBSET (1 .. n) : Cardinality(K) = kept /\ Kept(K)
            /\ dataset_' = [dataset_ EXCEPT !.max_examples_ = m,
                                            !.features_ = dataset_'.features_,
                                            !.labels_ = dataset_'.labels_,
                                            !.timestamps_ = dataset_'.timestamps_]]_vars

\* SetMaxExamples(1) has cut a dataset of two examples, replay disabled, down
\* to its first example
C24_Witness ==
    /\ called.op = "SetMaxExamples"
    /\ called.args = <<1>>
    /\ ~dataset_.replay_memory_enabled_
    /\ Len(dataset_.features_) = 1
    /\ dataset_.timestamps_ = <<0>>
    /\ dataset_.current_timestamp_ = 2

\* the indices RANDOM_OLDER may evict from ds: every index of positive age
\* current_timestamp_ - timestamp, or every index when no age is positive
EligibleByAge(ds) ==
    LET n == Len(ds.features_)
        age(i) == ds.current_timestamp_ - ds.timestamps_[i + 1]
    IN  IF \A i \in 0 .. n - 1 : age(i) = 0 THEN 0 .. n - 1
        ELSE { i \in 0 .. n - 1 : age(i) > 0 }

\* C25: an eviction under RANDOM_OLDER from a dataset of N >= 1 examples
\* removes exactly one example, at an index in [0, N) that its age makes
\* eligible, from features, labels and timestamps alike; stated for the
\* eviction of an Add at capacity and for that of a SetMaxExamples(N - 1)
C25_RandomOlderEvicts ==
    [][(/\ dataset_.replay_memory_enabled_
        /\ dataset_.forget_mode_ = "RANDOM_OLDER"
        /\ Len(dataset_.features_) >= 1) =>
        LET n == Len(dataset_.features_)
        IN  /\ (/\ called'.op = "Add"
                /\ n = dataset_.max_examples_
                /\ FitsWidths(dataset_, called'.args[1], called'.args[2])) =>
                    \E i \in EligibleByAge(dataset_) :
                        /\ i \in 0 .. n - 1
                        /\ dataset_' = EvictedAndAppended(dataset_, i, called'.args[1],
                                                          called'.args[2])
            /\ (called'.op = "SetMaxExamples" /\ called'.args = <<n - 1>>) =>
                    \E i \in EligibleByAge(dataset_) :
                        /\ i \in 0 .. n - 1
                        /\ dataset_'.features_ = Erase(dataset_.features_, i)
                        /\ dataset_'.labels_ = Erase(dataset_.labels_, i)
                        /\ dataset_'.timestamps_ = Erase(dataset_.timestamps_, i)]_vars

\* SetMaxExamples(1) under RANDOM_OLDER has evicted the newer of two loaded
\* examples
C25_Witness ==
    /\ called.op = "SetMaxExamples"
    /\ dataset_.replay_memory_enabled_
    /\ dataset_.forget_mode_ = "RANDOM_OLDER"
    /\ Len(dataset_.features_) = 1
    /\ dataset_.timestamps_ = <<0>>
    /\ dataset_.current_timestamp_ = 2

(***************************************************************************)
(* Mini-batch training (MLP::TrainBatch) on an MLP a caller drives         *)
(* directly: one call, followed statement by statement.                    *)
(***************************************************************************)
\* number of samples of the largest training set a caller passes
MaxSamples == 3

\* the k-th sample of a training set: odd samples are far from the origin
\* with a label far above the sigmoid's range, even samples are in range
TrainingFeature(k) ==
    [j \in 1 .. m_num_inputs |->
        IF k % 2 = 1 THEN (IF j % 2 = 1 THEN 4 * One ELSE -4 * One)
                     ELSE (IF j = 1 THEN One ELSE 0)]

TrainingLabel(k) ==
    [j \in 1 .. n_outputs_ |-> IF k % 2 = 1 THEN 4 * One ELSE 0]

\* the training sets a caller passes: the first n samples, n >= 1
TrainingSets ==
    { [first |-> [k \in 1 .. n |-> TrainingFeature(k)],
       second |-> [k \in 1 .. n |-> TrainingLabel(k)]] : n \in 1 .. MaxSamples }

\* the batch sizes a caller passes
BatchSizes == 1 .. MaxSamples

\* the values of min_error_cost a caller passes: one no cost is below, the
\* IML's threshold and one the first iteration's cost is below
MinErrorCosts == {0, convergence_threshold_, 16 * One}

\* std::sqrt, rounded to the nearest representable value
RECURSIVE SqrtBetween(_, _, _)
SqrtBetween(x, lo, hi) ==
    IF lo = hi THEN lo
    ELSE LET mid == (lo + hi + 1) \div 2
         IN  IF (2 * mid - 1) * (2 * mid - 1) <= 4 * x * One
             THEN SqrtBetween(x, mid, hi)
             ELSE SqrtBetween(x, lo, mid - 1)

Sqrt(x) == IF x <= 0 THEN 0 ELSE SqrtBetween(x, 0, x * One + 1)

\* Node::GetInputInnerProdWithWeights of a node whose bias is bias
NodeInnerProd(w, bias, input) ==
    SumSeq([j \in 1 .. Len(input) |-> Mul(input[j], w[j])]) + bias

\* MLP::GetOutput with all_layers_activations: the input of every layer
\* followed by the output of the last one
RECURSIVE AllLayersActivations(_, _, _, _)
AllLayersActivations(weights, bias, i, in) ==
    IF i > Len(weights) THEN <<in>>
    ELSE <<in>> \o AllLayersActivations(weights, bias, i + 1,
                       [k \in 1 .. Len(weights[i]) |->
                           Activation(activations[i],
                                      NodeInnerProd(weights[i][k], bias[i][k], in))])

\* MLP::InitializeAllGradientAccumulators
InitializeAllGradientAccumulators(weights, nodes) ==
    [nodes EXCEPT
        !.m_gradient_accumulator =
            [n \in 1 .. Len(weights) |->
                [k \in 1 .. Len(weights[n]) |->
                    [j \in 1 .. Len(weights[n][k]) |-> 0]]],
        !.m_bias_gradient_accumulator =
            [n \in 1 .. Len(weights) |-> [k \in 1 .. Len(weights[n]) |-> 0]]]

\* Layer::AccumulateGradients, the error signal of node k
ErrorSignal(lw, bias, f, input, deriv_error, k) ==
    Mul(deriv_error[k], DerivActivation(f, NodeInnerProd(lw[k], bias[k], input)))

\* MLP::BackpropagateWithAccumulation: layers in reverse order; every node
\* adds x[j] * error to its per-weight accumulators and error to its bias
\* accumulator (Node::AccumulateGradients)
RECURSIVE BackpropagateWithAccumulation(_, _, _, _, _)
BackpropagateWithAccumulation(weights, nodes, acts, deriv_error, i) ==
    IF i < 1 THEN nodes
    ELSE LET error_signal ==
                 [k \in 1 .. Len(weights[i]) |->
                     ErrorSignal(weights[i], nodes.m_bias[i], activations[i],
                                 acts[i], deriv_error, k)]
             deltas ==
                 [j \in 1 .. Len(acts[i]) |->
                     SumSeq([k \in 1 .. Len(weights[i]) |->
                                Mul(error_signal[k], weights[i][k][j])])]
         IN  BackpropagateWithAccumulation(
                 weights,
                 [nodes EXCEPT
                     !.m_gradient_accumulator[i] =
                         [k \in 1 .. Len(weights[i]) |->
                             [j \in 1 .. Len(weights[i][k]) |->
                                 @[k][j] + Mul(acts[i][j], error_signal[k])]],
                     !.m_bias_gradient_accumulator[i] =
                         [k \in 1 .. Len(weights[i]) |-> @[k] + error_signal[k]]],
                 acts, deltas, i - 1)

\* Layer::GetGradSumSquared summed over the layers: the squares of the
\* per-weight accumulators scaled by batch_size_inv
GetGradSumSquared(nodes, batch_size_inv) ==
    SumSeq([n \in 1 .. Len(nodes.m_gradient_accumulator) |->
        SumSeq([k \in 1 .. Len(nodes.m_gradient_accumulator[n]) |->
            SumSeq([j \in 1 .. Len(nodes.m_gradient_accumulator[n][k]) |->
                LET scaledGrad == Mul(nodes.m_gradient_accumulator[n][k][j],
                                      batch_size_inv)
                IN  Mul(scaledGrad, scaledGrad)])])])

\* Layer::ScaleAccumulatedGradients on every layer:
\* Node::ScaleAccumulatedGradients multiplies m_gradient_accumulator
ScaleAccumulatedGradients(nodes, clip_coef) ==
    [nodes EXCEPT
        !.m_gradient_accumulator =
            [n \in 1 .. Len(@) |->
                [k \in 1 .. Len(@[n]) |->
                    [j \in 1 .. Len(@[n][k]) |-> Mul(@[n][k][j], clip_coef)]]]]

\* Node::ApplyAccumulatedGradients for one accumulator: the RMSProp average
\* and the step taken.  rmsPropDecay is 0.9, rmsPropDecayInv 0.1,
\* gradientClipValue 10, maxSquaredGradAvg 1e6, maxAdjustedLR 1;
\* rmsPropEpsilon (1e-6) is below the resolution, so a zero average divides
\* the learning rate by 1e-6 alone.
RMSProp(accumulator, avg, learning_rate, batch_size_inv) ==
    LET gradient == Max(Min(Mul(accumulator, batch_size_inv), 10 * One), -10 * One)
        squared == Min(Rnd(9 * avg, 10) + Mul(Rnd(gradient, 10), gradient),
                       1000000 * One)
        root == Sqrt(squared)
        adjusted_learning_rate ==
            Min(IF root = 0 THEN learning_rate * 1000000
                            ELSE Rnd(learning_rate * One, root),
                One)
    IN  [avg |-> squared, step |-> Mul(adjusted_learning_rate, gradient)]

\* MLP::ApplyAllAccumulatedGradients: [weights, nodes] after every node took
\* its step and reset its accumulators
ApplyAllAccumulatedGradients(weights, nodes, learning_rate, batch_size_inv) ==
    LET w(n, k, j) == RMSProp(nodes.m_gradient_accumulator[n][k][j],
                              nodes.squared_gradient_avg[n][k][j],
                              learning_rate, batch_size_inv)
        b(n, k) == RMSProp(nodes.m_bias_gradient_accumulator[n][k],
                           nodes.bias_squared_gradient_avg[n][k],
                           learning_rate, batch_size_inv)
    IN  [weights |->
            [n \in 1 .. Len(weights) |->
                [k \in 1 .. Len(weights[n]) |->
                    [j \in 1 .. Len(weights[n][k]) |->
                        weights[n][k][j] - w(n, k, j).step]]],
         nodes |->
            [m_bias |->
                [n \in 1 .. Len(weights) |->
                    [k \in 1 .. Len(weights[n]) |->
                        nodes.m_bias[n][k] - b(n, k).step]],
             m_gradient_accumulator |->
                [n \in 1 .. Len(weights) |->
                    [k \in 1 .. Len(weights[n]) |->
                        [j \in 1 .. Len(weights[n][k]) |-> 0]]],
             m_bias_gradient_accumulator |->
                [n \in 1 .. Len(weights) |-> [k \in 1 .. Len(weights[n]) |-> 0]],
             squared_gradient_avg |->
                [n \in 1 .. Len(weights) |->
                    [k \in 1 .. Len(weights[n]) |->
                        [j \in 1 .. Len(weights[n][k]) |-> w(n, k, j).avg]]],
             bias_squared_gradient_avg |->
                [n \in 1 .. Len(weights) |->
                    [k \in 1 .. Len(weights[n]) |-> b(n, k).avg]]]]

\* n_batches of TrainBatch
NBatches_floor(n_samples, batch_size) ==
    IF n_samples < batch_size THEN 1 ELSE n_samples \div batch_size

NBatches(n_samples, batch_size) ==
    (n_samples + batch_size - 1) \div batch_size

\* std::shuffle of 0 .. n - 1: every order the generator can produce
Shuffled(n) ==
    { p \in [1 .. n -> 0 .. n - 1] : \A a, b \in 1 .. n : p[a] = p[b] => a = b }

\* (T)1.0 / current_batch_size
BatchSizeReciprocal(current_batch_size) == Rnd(One, current_batch_size)

\* grad_norm of the batch being closed
GradNorm(nodes, current_batch_size) ==
    Sqrt(GetGradSumSquared(nodes, BatchSizeReciprocal(current_batch_size)))

\* clip_coef = 5.0f / grad_norm
ClipCoef(grad_norm) == Rnd(5 * One * One, grad_norm)

\* what a step of a training run leaves alone
run_frame == <<mode_, input_updated_, perform_inference_, input_state_,
               output_state_, dataset_, stored_weights_, weights_randomised_,
               called, logged, calls, added, js, flags, globals, pc>>

\* an entry of events
Event(op, idx) == [op |-> op, idx |-> idx]

\* TrainBatch is entered: the locals before the first test of the outer loop
TrainBatch(training_sample_set, batch_size, max_iterations, min_error_cost) ==
    /\ train_batch.pc = "idle"
    /\ train_run.pc = "idle"
    /\ train_batch' =
         [pc |-> IF 0 < max_iterations THEN "iter" ELSE "done",
          training_sample_set |-> training_sample_set,
          batch_size |-> batch_size,
          max_iterations |-> max_iterations,
          min_error_cost |-> min_error_cost,
          n_samples |-> Len(training_sample_set.first),
          n_batches |-> NBatches(Len(training_sample_set.first), batch_size),
          epoch_loss |-> 0, iter |-> 0, indices |-> << >>, sample_idx |-> 0,
          batch |-> 0, current_batch_size |-> 0, batch_loss |-> 0, i |-> 0]
    /\ UNCHANGED <<m_layers, m_nodes, train_run, progress, events>>
    /\ UNCHANGED run_frame

\* the head of an iteration: the indices are shuffled
TrainBatchShuffle ==
    /\ train_batch.pc = "iter"
    /\ \E indices \in Shuffled(train_batch.n_samples) :
         train_batch' = [train_batch EXCEPT
                            !.pc = "batch", !.epoch_loss = 0,
                            !.indices = indices, !.sample_idx = 0, !.batch = 0]
    /\ events' = << >>
    /\ UNCHANGED <<m_layers, m_nodes, train_run, progress>>
    /\ UNCHANGED run_frame

\* the head of a batch: its size is fixed and the accumulators are zeroed
TrainBatchBegin ==
    /\ train_batch.pc = "batch"
    /\ train_batch' = [train_batch EXCEPT
                          !.pc = "sample",
                          !.current_batch_size =
                              Min(train_batch.batch_size,
                                  train_batch.n_samples - train_batch.sample_idx),
                          !.batch_loss = 0, !.i = 0]
    /\ m_nodes' = InitializeAllGradientAccumulators(m_layers, m_nodes)
    /\ events' = Append(events, Event("zero", -1))
    /\ UNCHANGED <<m_layers, train_run, progress>>
    /\ UNCHANGED run_frame

\* one sample of the batch: forward pass, loss, accumulation
TrainBatchSample ==
    /\ train_batch.pc = "sample"
    /\ LET idx == train_batch.indices[train_batch.sample_idx + 1]
           acts == AllLayersActivations(m_layers, m_nodes.m_bias, 1,
                                        train_batch.training_sample_set.first[idx + 1])
           predicted_output == acts[Len(acts)]
           label == train_batch.training_sample_set.second[idx + 1]
       IN  /\ train_batch' = [train_batch EXCEPT
                                 !.pc = IF train_batch.i + 1 < train_batch.current_batch_size
                                        THEN "sample" ELSE "clip",
                                 !.sample_idx = @ + 1,
                                 !.i = @ + 1,
                                 !.batch_loss = @ + MSELoss(label, predicted_output, 1)]
           /\ m_nodes' = BackpropagateWithAccumulation(
                             m_layers, m_nodes, acts,
                             MSEDeriv(label, predicted_output, 1), Len(m_layers))
           /\ events' = Append(events, Event("sample", idx))
    /\ UNCHANGED <<m_layers, train_run, progress>>
    /\ UNCHANGED run_frame

\* gradient clipping of the batch
TrainBatchClip ==
    /\ train_batch.pc = "clip"
    /\ LET grad_norm == GradNorm(m_nodes, train_batch.current_batch_size)
       IN  IF grad_norm > 5 * One
           THEN /\ m_nodes' = ScaleAccumulatedGradients(m_nodes, ClipCoef(grad_norm))
                /\ events' = Append(events, Event("scale", -1))
           ELSE /\ m_nodes' = m_nodes
                /\ events' = events
    /\ train_batch' = [train_batch EXCEPT !.pc = "apply"]
    /\ UNCHANGED <<m_layers, train_run, progress>>
    /\ UNCHANGED run_frame

\* the optimiser step that closes the batch
TrainBatchApply ==
    /\ train_batch.pc = "apply"
    /\ LET r == ApplyAllAccumulatedGradients(
                    m_layers, m_nodes, learning_rate_,
                    BatchSizeReciprocal(train_batch.current_batch_size))
       IN  /\ m_layers' = r.weights
           /\ m_nodes' = r.nodes
    /\ train_batch' = [train_batch EXCEPT
                          !.pc = IF train_batch.batch + 1 < train_batch.n_batches
                                 THEN "batch" ELSE "enditer",
                          !.batch = @ + 1,
                          !.epoch_loss = @ + Rnd(train_batch.batch_loss,
                                                 train_batch.current_batch_size)]
    /\ events' = Append(events, Event("apply", -1))
    /\ UNCHANGED <<train_run, progress>>
    /\ UNCHANGED run_frame

\* the tail of an iteration: the progress callback, the convergence test
\* and the test of the outer loop
TrainBatchEndIter ==
    /\ train_batch.pc = "enditer"
    /\ LET epoch_loss == Rnd(train_batch.epoch_loss, train_batch.n_batches)
       IN  /\ progress' = Append(progress, train_batch.iter)
           /\ train_batch' =
                IF epoch_loss < train_batch.min_error_cost
                THEN [train_batch EXCEPT !.pc = "done", !.epoch_loss = epoch_loss]
                ELSE [train_batch EXCEPT
                         !.pc = IF train_batch.iter + 1 < train_batch.max_iterations
                                THEN "iter" ELSE "done",
                         !.iter = @ + 1,
                         !.epoch_loss = epoch_loss]
    /\ UNCHANGED <<m_layers, m_nodes, train_run, events>>
    /\ UNCHANGED run_frame

TrainBatchNext ==
    \/ \E training_sample_set \in TrainingSets, batch_size \in BatchSizes,
          min_error_cost \in MinErrorCosts :
          TrainBatch(training_sample_set, batch_size, MaxIter, min_error_cost)
    \/ TrainBatchShuffle
    \/ TrainBatchBegin
    \/ TrainBatchSample
    \/ TrainBatchClip
    \/ TrainBatchApply
    \/ TrainBatchEndIter

TrainBatchSpec == Init /\ [][TrainBatchNext]_vars

\* ceil(N / B) for N >= 1, B >= 1
Ceil(N, B) == CHOOSE c \in 1 .. N : (c - 1) * B < N /\ N <= c * B

\* the b-th of the consecutive batches of size B of the shuffled indices:
\* the accumulators are zeroed, its samples are visited in order, the
\* accumulators are applied
BatchEvents(indices, B, b) ==
    <<Event("zero", -1)>>
    \o [s \in 1 .. (Min(b * B, Len(indices)) - (b - 1) * B) |->
           Event("sample", indices[(b - 1) * B + s])]
    \o <<Event("apply", -1)>>

RECURSIVE IterationEvents(_, _, _)
IterationEvents(indices, B, b) ==
    IF b > Ceil(Len(indices), B) THEN << >>
    ELSE BatchEvents(indices, B, b) \o IterationEvents(indices, B, b + 1)

\* the events of the current iteration without the clipping steps
Unclipped == SelectSeq(events, LAMBDA e : e.op # "scale")

\* C26: in every iteration of TrainBatch on N >= 1 samples with batch size
\* B >= 1 the shuffled indices hold every sample index exactly once and are
\* worked through as ceil(N / B) consecutive batches of size B, the last
\* one possibly shorter; every batch zeroes the accumulators before its
\* first sample and applies them exactly once after its last sample
C26_BatchPartition ==
    train_batch.pc \in {"batch", "sample", "clip", "apply", "enditer"} =>
        LET N == train_batch.n_samples
            B == train_batch.batch_size
            expected == IterationEvents(train_batch.indices, B, 1)
        IN  /\ Len(train_batch.indices) = N
            /\ \A idx \in 0 .. N - 1 :
                 Cardinality({s \in 1 .. N : train_batch.indices[s] = idx}) = 1
            /\ Len(Unclipped) <= Len(expected)
            /\ Unclipped = SubSeq(expected, 1, Len(Unclipped))
            /\ train_batch.pc = "enditer" => Unclipped = expected
            /\ train_batch.pc = "sample" /\ train_batch.i = 0 =>
                 \A n \in 1 .. Len(m_layers) : \A k \in 1 .. Len(m_layers[n]) :
                    /\ m_nodes.m_bias_gradient_accumulator[n][k] = 0
                    /\ \A j \in 1 .. Len(m_layers[n][k]) :
                          m_nodes.m_gradient_accumulator[n][k][j] = 0

\* an iteration of three samples in batches of two is complete: a full
\* batch and a shorter one
C26_Witness ==
    /\ train_batch.pc = "enditer"
    /\ train_batch.n_samples = 3
    /\ train_batch.batch_size = 2
    /\ train_batch.iter = 1
    /\ Len(events) >= 7

\* C27: when the gradient norm of a batch exceeds 5.0, the clipping step
\* multiplies every per-weight accumulator and every bias accumulator of
\* every node by 5.0 / grad_norm, and the optimiser step follows it
C27_ClipScalesEveryAccumulator ==
    [][(/\ train_batch.pc = "clip"
        /\ GradNorm(m_nodes, train_batch.current_batch_size) > 5 * One) =>
            LET clip_coef ==
                    ClipCoef(GradNorm(m_nodes, train_batch.current_batch_size))
            IN  /\ train_batch'.pc = "apply"
                /\ m_layers' = m_layers
                /\ \A n \in 1 .. Len(m_layers) : \A k \in 1 .. Len(m_layers[n]) :
                      /\ m_nodes'.m_bias_gradient_accumulator[n][k] =
                            Mul(m_nodes.m_bias_gradient_accumulator[n][k], clip_coef)
                      /\ \A j \in 1 .. Len(m_layers[n][k]) :
                            m_nodes'.m_gradient_accumulator[n][k][j] =
                               Mul(m_nodes.m_gradient_accumulator[n][k][j], clip_coef)]_vars

(***************************************************************************)
(* Per-sample training (MLP::Train) with a progress callback installed by  *)
(* SetProgressCallback: one call, followed iteration by iteration.         *)
(***************************************************************************)
\* the values of max_iterations a caller passes: none, one, the IML's and
\* one more than the callback period (i & 0x1F selects every 32nd index)
MaxIterations == {0, 1, MaxIter, 33}

\* Train is entered: the locals before the first test of the loop
CallTrain(training_sample_set_with_bias, max_iterations, min_error_cost) ==
    /\ train_batch.pc = "idle"
    /\ train_run.pc = "idle"
    /\ train_run' =
         [pc |-> IF 0 < max_iterations THEN "loop" ELSE "finish",
          training_sample_set_with_bias |-> training_sample_set_with_bias,
          max_iterations |-> max_iterations,
          min_error_cost |-> min_error_cost,
          i |-> 0,
          current_iteration_cost_function |-> 0,
          ran |-> 0]
    /\ UNCHANGED <<m_layers, m_nodes, train_batch, progress, events>>
    /\ UNCHANGED run_frame

\* one iteration of the loop: every sample is trained on, the callback is
\* called if the five low bits of i are clear, the loop is left on
\* convergence (i as it is) or continued (i incremented and tested).
\* ran counts the iterations executed.
TrainIteration ==
    /\ train_run.pc = "loop"
    /\ LET set == train_run.training_sample_set_with_bias
           r == TrainEpoch(m_layers, set.first, set.second, learning_rate_, 1, 0)
           current_iteration_cost_function == Rnd(r.loss, Len(set.first))
           i == train_run.i
       IN  /\ m_layers' = r.weights
           /\ progress' = IF i % 32 = 0 THEN Append(progress, i) ELSE progress
           /\ train_run' =
                IF current_iteration_cost_function < train_run.min_error_cost
                THEN [train_run EXCEPT
                         !.pc = "finish",
                         !.current_iteration_cost_function =
                             current_iteration_cost_function,
                         !.ran = @ + 1]
                ELSE [train_run EXCEPT
                         !.pc = IF i + 1 < train_run.max_iterations
                                THEN "loop" ELSE "finish",
                         !.i = i + 1,
                         !.current_iteration_cost_function =
                             current_iteration_cost_function,
                         !.ran = @ + 1]
    /\ UNCHANGED <<m_nodes, train_batch, events>>
    /\ UNCHANGED run_frame

\* after the loop: the final callback with i as the loop left it
TrainFinish ==
    /\ train_run.pc = "finish"
    /\ progress' = Append(progress, train_run.i)
    /\ train_run' = [train_run EXCEPT !.pc = "done"]
    /\ UNCHANGED <<m_layers, m_nodes, train_batch, events>>
    /\ UNCHANGED run_frame

TrainNext ==
    \/ \E training_sample_set_with_bias \in TrainingSets,
          max_iterations \in MaxIterations, min_error_cost \in MinErrorCosts :
          CallTrain(training_sample_set_with_bias, max_iterations, min_error_cost)
    \/ TrainIteration
    \/ TrainFinish

TrainSpec == Init /\ [][TrainNext]_vars

\* C28: when Train has returned after at least one iteration, the progress
\* callback has been invoked exactly for the iteration indices that are
\* multiples of 32 or the last iteration executed, once for each, and for
\* no index of an iteration that did not run
C28_CallbackIndices ==
    train_run.pc = "done" /\ train_run.ran >= 1 =>
        LET executed == 0 .. train_run.ran - 1
            due == {i \in executed : i % 32 = 0 \/ i = train_run.ran - 1}
        IN  /\ \A s \in 1 .. Len(progress) : progress[s] \in executed
            /\ \A i \in due :
                 Cardinality({s \in 1 .. Len(progress) : progress[s] = i}) = 1
            /\ \A s \in 1 .. Len(progress) : progress[s] \in due

(***************************************************************************)
(* The C++ IML and its JavaScript port given the same calls.               *)
(***************************************************************************)
\* the operations the two implementations have in common
PortNext ==
    \/ \E index \in CallIndices, value \in CallValues : set_input(index, value)
    \/ \E count \in 0 .. n_inputs_ + 1, values \in [1 .. n_inputs_ + 1 -> BulkValues] :
          set_inputs(values, count)
    \/ process
    \/ \E mode \in {"Inference", "Training"} : set_mode(mode)
    \/ save_example
    \/ clear_dataset
    \/ randomise_weights

PortSpec == PortInit /\ [][PortNext]_vars

Stmt(line, op, var) == [line |-> line, op |-> op, var |-> var]

\* setup()
setup ==
    << Stmt(86, "call", "set_sys_clock_khz"),
       Stmt(88, "call", "bus_ctrl_hw->priority"),
       Stmt(90, "call", "srand"),
       Stmt(93, "call", "Serial.begin"),
       Stmt(95, "call", "Serial.println"),
       Stmt(96, "write", "serial_ready"),
       Stmt(99, "call", "MEMLNaut::Initialize"),
       Stmt(100, "call", "pinMode"),
       Stmt(103, "call", "temp_interface"),
       Stmt(107, "call", "temp_interface->setup"),
       Stmt(111, "assign", "interface"),
       Stmt(115, "write", "interface_ready"),
       Stmt(117, "call", "interface->bindInterface"),
       Stmt(118, "call", "Serial.println"),
       Stmt(121, "assign", "midi_interf"),
       Stmt(122, "call", "midi_interf->Setup"),
       Stmt(123, "call", "midi_interf->SetMIDISendChannel"),
       Stmt(124, "call", "Serial.println"),
       Stmt(125, "call", "interface->bindMIDI"),
       Stmt(132, "write", "core_0_ready"),
       Stmt(133, "wait", "core_1_ready"),
       Stmt(139, "call", "voiceSpaceSelectView"),
       Stmt(141, "call", "InsertViewAfter"),
       Stmt(144, "call", "setOptions"),
       Stmt(145, "call", "setNewVoiceCallback"),
       Stmt(154, "call", "currentMode->addViews"),
       Stmt(156, "call", "helpView"),
       Stmt(168, "call", "AddView"),
       Stmt(170, "call", "addSystemInfoView"),
       Stmt(172, "call", "Serial.println"),
       Stmt(173, "return", "") >>

\* setup1() with its final wait left out
setup1_nowait ==
    << Stmt(228, "wait", "serial_ready"),
       Stmt(233, "wait", "interface_ready"),
       Stmt(263, "call", "currentMode->Setup"),
       Stmt(265, "call", "AudioDriver::SetBlockCallback"),
       Stmt(268, "call", "AudioDriver::Setup"),
       Stmt(274, "write", "core_1_ready"),
       Stmt(280, "call", "Serial.println"),
       Stmt(281, "return", "") >>

\* setup1()
setup1 ==
    << Stmt(228, "wait", "serial_ready"),
       Stmt(233, "wait", "interface_ready"),
       Stmt(263, "call", "currentMode->Setup"),
       Stmt(265, "call", "AudioDriver::SetBlockCallback"),
       Stmt(268, "call", "AudioDriver::Setup"),
       Stmt(274, "write", "core_1_ready"),
       Stmt(275, "wait", "core_0_ready"),
       Stmt(280, "call", "Serial.println"),
       Stmt(281, "return", "") >>

\* the routine a core runs at start-up
Routine(core) == IF core = 0 THEN setup ELSE setup1

\* the core has returned from its routine
Returned(core) == pc[core].at > Len(Routine(core))

\* the statement the core is at
Current(core) == Routine(core)[pc[core].at]

\* what a step of a core leaves alone
core_frame == <<mode_, input_updated_, perform_inference_, input_state_,
                output_state_, dataset_, m_layers, stored_weights_,
                weights_randomised_, called, logged, calls, added, js,
                m_nodes, train_batch, train_run, progress, events>>

\* the core moves to its next statement
Advance(core) == pc' = [pc EXCEPT ![core] = [at |-> @.at + 1, in_delay |-> FALSE]]

\* a call that touches none of the shared variables
Statement(core) ==
    /\ ~Returned(core)
    /\ Current(core).op = "call"
    /\ Advance(core)
    /\ UNCHANGED <<flags, globals>>
    /\ UNCHANGED core_frame

\* interface = temp_interface / midi_interf = std::make_shared<MIDIInOut>()
Assign(core) ==
    /\ ~Returned(core)
    /\ Current(core).op = "assign"
    /\ globals' = [globals EXCEPT ![Current(core).var] = "object"]
    /\ Advance(core)
    /\ UNCHANGED flags
    /\ UNCHANGED core_frame

\* WRITE_VOLATILE(var, true)
WriteVolatile(core) ==
    /\ ~Returned(core)
    /\ Current(core).op = "write"
    /\ flags' = [flags EXCEPT ![Current(core).var] = TRUE]
    /\ Advance(core)
    /\ UNCHANGED globals
    /\ UNCHANGED core_frame

\* the test of while (!READ_VOLATILE(var)): the loop is left or its body
\* is entered
ReadVolatile(core) ==
    /\ ~Returned(core)
    /\ Current(core).op = "wait"
    /\ ~pc[core].in_delay
    /\ IF flags[Current(core).var]
       THEN Advance(core)
       ELSE pc' = [pc EXCEPT ![core].in_delay = TRUE]
    /\ UNCHANGED <<flags, globals>>
    /\ UNCHANGED core_frame

\* the body of the busy-wait: MEMORY_BARRIER(); delay(1)
Delay(core) ==
    /\ ~Returned(core)
    /\ Current(core).op = "wait"
    /\ pc[core].in_delay
    /\ pc' = [pc EXCEPT ![core].in_delay = FALSE]
    /\ UNCHANGED <<flags, globals>>
    /\ UNCHANGED core_frame

\* the routine returns
Return(core) ==
    /\ ~Returned(core)
    /\ Current(core).op = "return"
    /\ Advance(core)
    /\ UNCHANGED <<flags, globals>>
    /\ UNCHANGED core_frame

\* one step of a core
CoreStep(core) ==
    \/ Statement(core)
    \/ Assign(core)
    \/ WriteVolatile(core)
    \/ ReadVolatile(core)
    \/ Delay(core)
    \/ Return(core)

BootNext == \E core \in {0, 1} : CoreStep(core)

BootSpec == Init /\ [][BootNext]_vars

\* each core is a processor of its own that keeps executing
BootFairSpec == BootSpec /\ WF_vars(CoreStep(0)) /\ WF_vars(CoreStep(1))

\* C30: under fair scheduling of the two cores setup() and setup1() both
\* eventually return, and neither has returned while core_0_ready or
\* core_1_ready is still unset
C30_HandshakeCompletes ==
    /\ <>(Returned(0) /\ Returned(1))
    /\ [](\A core \in {0, 1} :
            Returned(core) => flags.core_0_ready /\ flags.core_1_ready)

\* both routines have returned
C30_Witness ==
    /\ Returned(0)
    /\ Returned(1)
    /\ flags.core_0_ready
    /\ flags.core_1_ready

====
